---------------------------- MODULE Spec2Model ----------------------------
(***************************************************************************)
(* State-machine model of MinPlayer's playback / playlist core:            *)
(*   - class AudioEngine (AudioEngine.ts lines 1-55), the wrapper around   *)
(*     one HTMLAudioElement;                                               *)
(*   - function App (lines 148-665): the React state, the refs, playTrack, *)
(*     togglePlay, the selection handlers, deleteSelectedTracks, the       *)
(*     ended handler, the drag-drop listener, the keyboard and the media   *)
(*     session handlers.                                                   *)
(* Every event handler runs to completion; an async function is cut at its *)
(* awaits (file read, play()), each continuation being an action of its    *)
(* own.  Indices are 0-based as in the code: list element i is list[i+1].  *)
(* Volumes are integer tenths (10 is 1.0).                                 *)
(***************************************************************************)
EXTENDS Integers, Sequences, FiniteSets, TLC

VARIABLES
    playlist,            \* useState<Track[]>              (line 157)
    currentIndex,        \* useState<number>(-1)           (line 158)
    isPlaying,           \* useState(false)                (line 156)
    volume,              \* useState(1), in tenths         (line 162)
    errorMessage,        \* useState<string | null>(null)  (line 163)
    selectedIndices,     \* useState<Set<number>>          (line 164)
    currentObjectUrlRef, \* useRef<string | null>(null)    (line 167)
    liveUrls,            \* object URLs created and not yet revoked
    audioSrc,            \* this.audio.src: the URL loaded in the device
    audioPaused,         \* this.audio.paused
    audioVolume,         \* this.audio.volume, in tenths
    loads,               \* the playTrack invocations suspended at an await
    resumePending,       \* togglePlay's play() promise is not settled yet
    msVolume,            \* the volume the media-session handlers closed over
    drops,               \* drag-drop batches waiting for their metadata
    microtask,           \* the queueMicrotask callback of the drop listener
    timers,              \* pending setTimeout(() => setErrorMessage(null))
    limits,              \* the bounds of the run (never changes)
    lastCall,            \* history: the playTrack invocation made last
    lastOp               \* history: the handler that ran last and what it saw

vars == <<playlist, currentIndex, isPlaying, volume, errorMessage,
          selectedIndices, currentObjectUrlRef, liveUrls, audioSrc,
          audioPaused, audioVolume, loads, resumePending, msVolume, drops,
          microtask, timers, limits, lastCall, lastOp>>

----------------------------------------------------------------------------
(* Bounds of the model                                                     *)

\* longest playlist
MaxTracks == 2
\* playTrack invocations suspended at an await at one time
MaxLoads == 2
\* object URLs created and not revoked at one time
MaxLive == 2
\* error messages waiting for their timeout at one time
MaxTimers == 2
\* dropped batches waiting for their metadata
MaxDrops == 1
\* longest playlist, and loads, of the playlist-editing specification
MaxListed == 3
MaxListedLoads == 1
\* loads under way at one time while the volume moves
MaxStickyLoads == 1
\* inputs of AudioEngine.setVolume, in tenths, reach this far past [0, 1]
VolumeOvershoot == 3

----------------------------------------------------------------------------
(* Values                                                                  *)

\* an object URL: URL.createObjectURL(blob) for the bytes of path (line 223)
Url(n, path) == [id |-> n, of |-> path]
\* currentObjectUrlRef.current === null, audio.src unset
NoUrl == Url(0, <<>>)
\* no playTrack invocation has reached its awaits yet
NoCall == [index |-> -1, path |-> <<>>, pc |-> "none"]
\* errorMessage === null
NoError == "null"
\* useState(1): the volume of the first render, in tenths
InitVolume == 10
\* Math.min(1, ...) in tenths
FullVolume == 10

\* File paths, as the sequences of their characters.
PathA == <<"a", ".", "m", "p", "3">>
PathB == <<"b", ".", "F", "L", "A", "C">>
PathC == <<"c", ".", "p", "n", "g">>
PathD == <<"m", "p", "3">>
Paths == {PathA, PathB, PathC, PathD}

\* String.prototype.toLowerCase on the characters the paths use
LowerChar(c) ==
    CASE c = "F" -> "f"
      [] c = "L" -> "l"
      [] c = "A" -> "a"
      [] c = "C" -> "c"
      [] c = "M" -> "m"
      [] c = "P" -> "p"
      [] OTHER -> c

toLowerCase(s) == [i \in 1..Len(s) |-> LowerChar(s[i])]

endsWith(s, suffix) ==
    /\ Len(suffix) <= Len(s)
    /\ SubSeq(s, Len(s) - Len(suffix) + 1, Len(s)) = suffix

validExtensions ==
    { <<".", "m", "p", "3">>, <<".", "m", "4", "a">>,
      <<".", "f", "l", "a", "c">>, <<".", "w", "a", "v">>,
      <<".", "o", "g", "g">>, <<".", "o", "p", "u", "s">>,
      <<".", "a", "a", "c">>, <<".", "w", "m", "a">> }

\* the test without toLowerCase: the variant C12 must tell apart
isValidCaseSensitive(path) ==
    \E ext \in validExtensions : endsWith(path, ext)

\* isValidAudioFile (lines 178-181)
isValidAudioFile(path) ==
    \E ext \in validExtensions : endsWith(toLowerCase(path), ext)

\* payload.paths.filter(path => isValidAudioFile(path)) (line 379)
RECURSIVE validPaths(_)
validPaths(paths) ==
    IF paths = <<>> THEN <<>>
    ELSE IF isValidAudioFile(Head(paths))
         THEN <<Head(paths)>> \o validPaths(Tail(paths))
         ELSE validPaths(Tail(paths))

\* the Track built for a dropped path (lines 396-402); only the path matters
\* to the playback machine
Track(path) == [path |-> path]

\* the batches a drop may deliver
DropBatches ==
    { <<PathA, PathC, PathB>>, <<PathB>>, <<PathC, PathD>> }

----------------------------------------------------------------------------
(* AudioEngine (lines 1-55) over the HTMLAudioElement                      *)

\* setVolume without its upper clamp: the variant C10 must tell apart
ClampVolumeNoCeiling(v) == IF v < 0 THEN 0 ELSE v

\* Math.max(0, Math.min(1, volume)) (line 39), in tenths
ClampVolume(v) == IF v < 0 THEN 0 ELSE IF v > FullVolume THEN FullVolume ELSE v

\* a pending play() promise is rejected when the element is paused or loaded
\* anew before it settles
AbortLoads(ls) ==
    [r \in 1..Len(ls) |->
        IF ls[r].pc = "play" THEN [ls[r] EXCEPT !.aborted = TRUE] ELSE ls[r]]

----------------------------------------------------------------------------
(* Helpers of App                                                          *)

\* the handlers whose runs the history variable tells apart
Tracked == {"deleteSelected", "ended", "setVolume"}

\* the history record of a handler: its name and, where a handler records
\* them, the current index (cur), selection (sel), playlist (list) and
\* isPlaying (playing) it started from, and the index the latest playTrack
\* had been called with (from)
Op(name) ==
    [op |-> IF name \in Tracked THEN name ELSE "other",
     cur |-> -1, sel |-> {}, list |-> <<>>, playing |-> FALSE, from |-> -1]

Indices(list) == 0 .. (Len(list) - 1)

\* the indices sorted ascending: the variant C8 must tell apart
RECURSIVE SortAscending(_)
SortAscending(S) ==
    IF S = {} THEN <<>>
    ELSE LET m == CHOOSE x \in S : \A y \in S : x <= y
         IN  <<m>> \o SortAscending(S \ {m})

\* Array.from(selectedIndices).sort((a, b) => b - a) (line 303)
RECURSIVE SortDescending(_)
SortDescending(S) ==
    IF S = {} THEN <<>>
    ELSE LET m == CHOOSE x \in S : \A y \in S : y <= x
         IN  <<m>> \o SortDescending(S \ {m})

\* newPlaylist.splice(idx, 1) (line 308); past the end it removes nothing
Splice(list, idx) ==
    IF idx < 0 \/ idx >= Len(list) THEN list
    ELSE SubSeq(list, 1, idx) \o SubSeq(list, idx + 2, Len(list))

\* indicesToDelete.forEach(idx => newPlaylist.splice(idx, 1)) (lines 306-310)
RECURSIVE SpliceAll(_, _)
SpliceAll(list, indicesToDelete) ==
    IF indicesToDelete = <<>> THEN list
    ELSE SpliceAll(Splice(list, Head(indicesToDelete)), Tail(indicesToDelete))

\* the loop counting the deleted indices above the current one: the
\* variant C6 must tell apart
RECURSIVE AdjustLoopWrongSide(_, _, _)
AdjustLoopWrongSide(prevIdx, newIdx, indicesToDelete) ==
    IF indicesToDelete = <<>> THEN newIdx
    ELSE IF Head(indicesToDelete) > prevIdx
         THEN AdjustLoopWrongSide(prevIdx, newIdx - 1, Tail(indicesToDelete))
    ELSE IF Head(indicesToDelete) = prevIdx THEN -1
    ELSE AdjustLoopWrongSide(prevIdx, newIdx, Tail(indicesToDelete))

\* the loop of the setCurrentIndex updater (lines 317-326)
RECURSIVE AdjustLoop(_, _, _)
AdjustLoop(prevIdx, newIdx, indicesToDelete) ==
    IF indicesToDelete = <<>> THEN newIdx
    ELSE IF Head(indicesToDelete) < prevIdx
         THEN AdjustLoop(prevIdx, newIdx - 1, Tail(indicesToDelete))
    ELSE IF Head(indicesToDelete) = prevIdx THEN -1
    ELSE AdjustLoop(prevIdx, newIdx, Tail(indicesToDelete))

\* an updater that never moves the current index down: the variant C3
\* must tell apart
AdjustIndexNoShift(prevIdx, indicesToDelete) ==
    IF \E k \in 1..Len(indicesToDelete) : indicesToDelete[k] = prevIdx
    THEN -1 ELSE prevIdx

\* the setCurrentIndex updater of deleteSelectedTracks (lines 314-327)
AdjustIndex(prevIdx, indicesToDelete) ==
    IF prevIdx = -1 THEN -1 ELSE AdjustLoop(prevIdx, prevIdx, indicesToDelete)

----------------------------------------------------------------------------
\* the state after the first render, for a run within the bounds lim
Initial(lim) ==
    /\ limits = lim
    /\ playlist = <<>>
    /\ currentIndex = -1
    /\ isPlaying = FALSE
    /\ volume = InitVolume
    /\ errorMessage = NoError
    /\ selectedIndices = {}
    /\ currentObjectUrlRef = NoUrl
    /\ liveUrls = {}
    /\ audioSrc = NoUrl
    /\ audioPaused = TRUE
    /\ audioVolume = FullVolume
    /\ loads = <<>>
    /\ resumePending = FALSE
    /\ msVolume = InitVolume
    /\ drops = <<>>
    /\ microtask = <<>>
    /\ timers = 0
    /\ lastCall = NoCall
    /\ lastOp = Op("init")

\* A task of the event loop can run: no microtask is waiting.
Ready == microtask = <<>>

\* the tracks of the batches that wait for their metadata
RECURSIVE PendingTracks(_)
PendingTracks(ds) ==
    IF ds = <<>> THEN 0 ELSE Len(Head(ds)) + PendingTracks(Tail(ds))

\* the re-registration of the handlers after a render (line 524)
MediaSessionEffect ==
    msVolume' = IF <<currentIndex', playlist', isPlaying'>>
                      # <<currentIndex, playlist, isPlaying>>
                THEN volume' ELSE msVolume

\* the bounds of the run, on the state a handler leaves; a queued
\* playTrack counts as a load, so that it can always run
WithinLimits ==
    /\ Len(playlist') + PendingTracks(drops') <= limits.tracks
    /\ Len(loads') + Len(microtask') <= limits.loads
    /\ Len(drops') <= limits.drops
    /\ Cardinality(liveUrls') <= limits.urls
    /\ timers' <= limits.timers

\* what follows every handler: the render and its effects
AfterHandler ==
    /\ MediaSessionEffect
    /\ WithinLimits
    /\ UNCHANGED limits

----------------------------------------------------------------------------
(* playTrack (lines 198-240)                                               *)

\* the pointer left for a later step: the variant C13 must tell apart
setCurrentIndexLater(index) == UNCHANGED currentIndex

\* setCurrentIndex(index) (line 211)
setCurrentIndex(index) == currentIndex' = index

playTrackVars ==
    <<currentIndex, errorMessage, timers, currentObjectUrlRef, liveUrls, loads,
      lastCall>>

\* The synchronous part of playTrack, up to the first await (lines 199-219).
\* vol is the volume the calling closure captured.
playTrack(index, currentList, vol) ==
    IF index < 0 \/ index >= Len(currentList)
    THEN UNCHANGED playTrackVars
    ELSE IF ~isValidAudioFile(currentList[index + 1].path)
    THEN /\ errorMessage' = "Invalid audio file type"
         /\ timers' = timers + 1
         /\ UNCHANGED <<currentIndex, currentObjectUrlRef, liveUrls, loads,
                        lastCall>>
    ELSE /\ setCurrentIndex(index)
         /\ currentObjectUrlRef' = NoUrl
         /\ liveUrls' = liveUrls \ {currentObjectUrlRef}
         /\ loads' = Append(loads, [index |-> index,
                                    path |-> currentList[index + 1].path,
                                    vol |-> vol,
                                    pc |-> "read",
                                    aborted |-> FALSE])
         /\ lastCall' = [index |-> index,
                         path |-> currentList[index + 1].path,
                         pc |-> "read"]
         /\ UNCHANGED <<errorMessage, timers>>

\* a catch block that starts no timer: the variant C17 must tell apart
playTrackCatchNoTimer ==
    /\ errorMessage' = "Failed to load audio file"
    /\ UNCHANGED timers
    /\ isPlaying' = FALSE

\* the catch block (lines 233-239)
playTrackCatch ==
    /\ errorMessage' = "Failed to load audio file"
    /\ timers' = timers + 1
    /\ isPlaying' = FALSE

\* the invocation suspended as loads[r] is the one made last
IsLatest(r) == r = Len(loads) /\ lastCall.pc \in {"read", "play"}

\* the invocation loads[r] has run to its end
Settle(r) ==
    [k \in 1..(Len(loads) - 1) |-> IF k < r THEN loads[k] ELSE loads[k + 1]]

\* the invocation loads[r] goes on to pc
Advance(r, pc) == IF IsLatest(r) THEN [lastCall EXCEPT !.pc = pc] ELSE lastCall

\* the URLs someone holds, live or revoked
HeldIds == {u.id : u \in liveUrls \cup {audioSrc, currentObjectUrlRef}}

\* URL.createObjectURL (line 223) returns a URL that no one holds
FreshId ==
    CHOOSE n \in 1..(Cardinality(liveUrls) + 3) :
        n \notin HeldIds /\ \A m \in 1..(n - 1) : m \in HeldIds

\* readFile settles for the invocation loads[r] (lines 219-229): on success
\* the object URL is created, stored in the ref and handed to the device,
\* and play() is requested; on failure the catch block runs.
ReadDone(r, ok) ==
    /\ Ready
    /\ loads[r].pc = "read"
    /\ lastOp' = Op("readDone")
    /\ IF ok
       THEN /\ liveUrls' = liveUrls \cup {Url(FreshId, loads[r].path)}
            /\ currentObjectUrlRef' = Url(FreshId, loads[r].path)
            /\ audioSrc' = Url(FreshId, loads[r].path)
            /\ audioPaused' = TRUE
            /\ audioVolume' = ClampVolume(loads[r].vol)
            /\ loads' = [AbortLoads(loads) EXCEPT ![r].pc = "play"]
            /\ lastCall' = Advance(r, "play")
            /\ resumePending' = FALSE
            /\ isPlaying' = IF resumePending THEN FALSE
                            ELSE isPlaying
            /\ UNCHANGED <<errorMessage, timers>>
       ELSE /\ playTrackCatch
            /\ loads' = Settle(r)
            /\ lastCall' = Advance(r, "failed")
            /\ UNCHANGED <<liveUrls, currentObjectUrlRef, audioSrc,
                           audioPaused, audioVolume, resumePending>>
    /\ UNCHANGED <<playlist, currentIndex, volume, selectedIndices, drops,
                   microtask>>
    /\ AfterHandler

\* audioEngine.play() settles for the invocation loads[r] (lines 229-239).
\* The element settles all its pending play() promises together, so a
\* pending promise of togglePlay settles with it, to the same value of
\* isPlaying.
PlayDone(r, ok) ==
    /\ Ready
    /\ loads[r].pc = "play"
    /\ ok => ~loads[r].aborted
    /\ lastOp' = Op("playDone")
    /\ loads' = Settle(r)
    /\ IF ok
       THEN /\ audioPaused' = FALSE
            /\ isPlaying' = TRUE
            /\ errorMessage' = NoError
            /\ lastCall' = Advance(r, "done")
            /\ UNCHANGED timers
       ELSE /\ playTrackCatch
            /\ lastCall' = Advance(r, "failed")
            /\ UNCHANGED audioPaused
    /\ resumePending' = IF loads[r].aborted THEN resumePending ELSE FALSE
    /\ UNCHANGED <<playlist, currentIndex, volume, selectedIndices,
                   currentObjectUrlRef, liveUrls, audioSrc, audioVolume,
                   drops, microtask>>
    /\ AfterHandler

\* setTimeout(() => setErrorMessage(null), 3000) fires (lines 207, 237)
ErrorTimeout ==
    /\ Ready
    /\ timers > 0
    /\ timers' = timers - 1
    /\ errorMessage' = NoError
    /\ lastOp' = Op("errorTimeout")
    /\ UNCHANGED <<playlist, currentIndex, isPlaying, volume, selectedIndices,
                   currentObjectUrlRef, liveUrls, audioSrc, audioPaused,
                   audioVolume, loads, resumePending, drops, microtask,
                   lastCall>>
    /\ AfterHandler

----------------------------------------------------------------------------
(* togglePlay (lines 242-258) and the transport buttons                    *)

togglePlay ==
    /\ Ready
    /\ lastOp' = Op("togglePlay")
    /\ IF isPlaying
       THEN /\ audioPaused' = TRUE
            /\ loads' = AbortLoads(loads)
            /\ resumePending' = FALSE
            /\ isPlaying' = FALSE
            /\ UNCHANGED <<lastCall, currentIndex, errorMessage, timers,
                           currentObjectUrlRef, liveUrls>>
       ELSE IF currentIndex = -1 /\ Len(playlist) > 0
       THEN /\ playTrack(0, playlist, volume)
            /\ UNCHANGED <<audioPaused, resumePending, isPlaying>>
       ELSE /\ resumePending' = TRUE
            /\ UNCHANGED <<audioPaused, isPlaying>>
            /\ UNCHANGED playTrackVars
    /\ UNCHANGED <<playlist, volume, selectedIndices, audioSrc, audioVolume,
                   drops, microtask>>
    /\ AfterHandler

\* callbacks that take every outcome for a success: the variant C19 must
\* tell apart
resumeSettledOptimistic(ok) == isPlaying' = TRUE

\* .then(() => setIsPlaying(true)).catch(e => setIsPlaying(false)) (lines
\* 250-255)
resumeSettled(ok) == isPlaying' = ok

\* the play() promise of togglePlay settles (lines 250-255)
ResumeDone(ok) ==
    /\ Ready
    /\ resumePending
    /\ \A r \in 1..Len(loads) : loads[r].pc = "play" => loads[r].aborted
    /\ ok => audioSrc # NoUrl
    /\ resumePending' = FALSE
    /\ lastOp' = Op("resumeDone")
    /\ audioPaused' = IF ok THEN FALSE ELSE audioPaused
    /\ resumeSettled(ok)
    /\ UNCHANGED <<lastCall, playlist, currentIndex, volume, errorMessage,
                   selectedIndices, currentObjectUrlRef, liveUrls, audioSrc,
                   audioVolume, loads, drops, microtask, timers>>
    /\ AfterHandler

\* the previous button (lines 558-560)
PreviousTrack ==
    /\ Ready
    /\ currentIndex > 0
    /\ playTrack(currentIndex - 1, playlist, volume)
    /\ lastOp' = Op("previous")
    /\ UNCHANGED <<playlist, isPlaying, volume, selectedIndices, audioSrc,
                   audioPaused, audioVolume, resumePending, drops, microtask>>
    /\ AfterHandler

\* the next button (lines 572-574)
NextTrack ==
    /\ Ready
    /\ currentIndex < Len(playlist) - 1
    /\ playTrack(currentIndex + 1, playlist, volume)
    /\ lastOp' = Op("next")
    /\ UNCHANGED <<playlist, isPlaying, volume, selectedIndices, audioSrc,
                   audioPaused, audioVolume, resumePending, drops, microtask>>
    /\ AfterHandler

----------------------------------------------------------------------------
(* Selection and deletion (lines 281-330, 444-456)                         *)

\* an updater that only ever adds the index: the variant C24 must tell
\* apart
toggleSelectionAddOnly(prev, index) == prev \cup {index}

\* the setSelectedIndices updater of a Cmd/Ctrl click (lines 284-292)
toggleSelection(prev, index) ==
    IF index \in prev THEN prev \ {index} ELSE prev \cup {index}

\* handlePlaylistItemClick (lines 281-298); modified: Cmd/Ctrl is held
handlePlaylistItemClick(index, modified) ==
    /\ Ready
    /\ index \in Indices(playlist)
    /\ lastOp' = Op(IF modified THEN "toggleSelect" ELSE "click")
    /\ IF modified
       THEN /\ selectedIndices' = toggleSelection(selectedIndices, index)
            /\ UNCHANGED playTrackVars
       ELSE /\ playTrack(index, playlist, volume)
            /\ selectedIndices' = {}
    /\ UNCHANGED <<playlist, isPlaying, volume, audioSrc, audioPaused,
                   audioVolume, resumePending, drops, microtask>>
    /\ AfterHandler

\* Cmd+A (lines 445-449)
SelectAll ==
    /\ Ready
    /\ selectedIndices' = Indices(playlist)
    /\ lastOp' = Op("selectAll")
    /\ UNCHANGED <<playlist, currentIndex, isPlaying, volume, errorMessage,
                   currentObjectUrlRef, liveUrls, audioSrc, audioPaused,
                   audioVolume, loads, resumePending, drops, microtask,
                   timers, lastCall>>
    /\ AfterHandler

\* deleteSelectedTracks (lines 300-330), reached by Delete or Backspace
deleteSelectedTracks ==
    /\ Ready
    /\ lastOp' = [Op("deleteSelected") EXCEPT
                      !.cur = currentIndex, !.sel = selectedIndices,
                      !.list = playlist, !.playing = isPlaying]
    /\ IF selectedIndices = {}
       THEN UNCHANGED <<playlist, currentIndex, selectedIndices>>
       ELSE LET indicesToDelete == SortDescending(selectedIndices)
            IN  /\ playlist' = SpliceAll(playlist, indicesToDelete)
                /\ currentIndex' = AdjustIndex(currentIndex, indicesToDelete)
                /\ selectedIndices' = {}
    /\ UNCHANGED <<isPlaying, volume, errorMessage, currentObjectUrlRef,
                   liveUrls, audioSrc, audioPaused, audioVolume, loads,
                   resumePending, drops, microtask, timers, lastCall>>
    /\ AfterHandler

----------------------------------------------------------------------------
(* The ended handler (lines 348-365)                                       *)

\* a handler that stays on the track that ended: the variant C9 must tell
\* apart
nextIndexStays(currentIdx) == currentIdx

\* const nextIndex = currentIdx + 1 (line 359)
nextIndex(currentIdx) == currentIdx + 1

\* a handler that keeps the index playback started with: the variant C18
\* must tell apart
indexRefAtStart == lastCall.index

\* playlistRef.current and indexRef.current (lines 170-173): the effects
\* copy the state into the refs after every render that changed it
playlistRef == playlist
indexRef == currentIndex

\* The device reaches the end of its source: it pauses itself and notifies.
\* The handler reads playlistRef and indexRef, which the effects of lines
\* 172-173 keep equal to the state, and calls the playTrack of the first
\* render (the effect has no dependencies), whose volume is the initial one.
Ended ==
    /\ Ready
    /\ audioSrc # NoUrl
    /\ ~audioPaused
    /\ audioPaused' = TRUE
    /\ lastOp' = [Op("ended") EXCEPT
                      !.cur = currentIndex, !.from = lastCall.index]
    /\ LET currentPlaylist == playlistRef
           currentIdx == indexRef
       IN  IF currentIdx < 0 \/ currentIdx >= Len(currentPlaylist)
           THEN /\ isPlaying' = FALSE
                /\ UNCHANGED playTrackVars
           ELSE IF nextIndex(currentIdx) < Len(currentPlaylist)
           THEN /\ playTrack(nextIndex(currentIdx), currentPlaylist,
                             InitVolume)
                /\ UNCHANGED isPlaying
           ELSE /\ isPlaying' = FALSE
                /\ UNCHANGED playTrackVars
    /\ UNCHANGED <<playlist, volume, selectedIndices, audioSrc, audioVolume,
                   resumePending, drops, microtask>>
    /\ AfterHandler

----------------------------------------------------------------------------
(* The drag-drop listener (lines 374-414)                                  *)

\* newTracks (lines 387-403)
NewTracks(paths) == [i \in 1..Len(paths) |-> Track(paths[i])]

\* A batch is dropped (lines 375-403): it is filtered, an empty rest is
\* ignored, and the metadata of the rest is awaited.
HandleDrop(paths) ==
    /\ Ready
    /\ Len(paths) > 0
    /\ lastOp' = Op("drop")
    /\ IF validPaths(paths) = <<>>
       THEN UNCHANGED drops
       ELSE drops' = Append(drops, NewTracks(validPaths(paths)))
    /\ UNCHANGED <<playlist, currentIndex, isPlaying, volume, errorMessage,
                   selectedIndices, currentObjectUrlRef, liveUrls, audioSrc,
                   audioPaused, audioVolume, loads, resumePending, microtask,
                   timers, lastCall>>
    /\ AfterHandler

RemoveAt(seq, k) == SubSeq(seq, 1, k - 1) \o SubSeq(seq, k + 1, Len(seq))

\* an updater that starts playback after every append: the variant C21
\* must tell apart
shouldAutoStartAlways(prev, updated) == Len(updated) > 0

\* prev.length === 0 && updated.length > 0 (line 407)
shouldAutoStart(prev, updated) == Len(prev) = 0 /\ Len(updated) > 0

\* The metadata of pending batch k has resolved: the setPlaylist updater
\* (lines 405-412) appends the batch and, when the list was empty, queues
\* playTrack(0, updated) as a microtask.
AppendTracks(k) ==
    /\ Ready
    /\ k \in 1..Len(drops)
    /\ LET updated == playlist \o drops[k]
       IN  /\ playlist' = updated
           /\ microtask' = IF shouldAutoStart(playlist, updated)
                           THEN <<updated>> ELSE <<>>
    /\ drops' = RemoveAt(drops, k)
    /\ lastOp' = Op("append")
    /\ UNCHANGED <<lastCall, currentIndex, isPlaying, volume, errorMessage,
                   selectedIndices, currentObjectUrlRef, liveUrls, audioSrc,
                   audioPaused, audioVolume, loads, resumePending, timers>>
    /\ AfterHandler

\* queueMicrotask(() => playTrack(0, updated)) runs (line 409), with the
\* playTrack of the first render
RunMicrotask ==
    /\ microtask # <<>>
    /\ playTrack(0, microtask[1], InitVolume)
    /\ microtask' = <<>>
    /\ lastOp' = Op("autoStart")
    /\ UNCHANGED <<playlist, isPlaying, volume, selectedIndices, audioSrc,
                   audioPaused, audioVolume, resumePending, drops>>
    /\ AfterHandler

----------------------------------------------------------------------------
(* The media-session handlers (lines 491-524).  The effect registers them  *)
(* anew whenever currentIndex, playlist or isPlaying changed, so they see  *)
(* the current index and playlist, and the playTrack, hence the volume, of *)
(* that render.                                                            *)

\* 'play' (lines 503-506); the outcome of play() is not looked at.  While
\* a play() of playTrack is pending the device settles both together, in
\* PlayDone.
MediaPlay(ok) ==
    /\ Ready
    /\ ok => audioSrc # NoUrl
    /\ ok => \A r \in 1..Len(loads) : loads[r].pc = "play" => loads[r].aborted
    /\ audioPaused' = IF ok THEN FALSE ELSE audioPaused
    /\ isPlaying' = TRUE
    /\ lastOp' = Op("mediaPlay")
    /\ UNCHANGED <<lastCall, playlist, currentIndex, volume, errorMessage,
                   selectedIndices, currentObjectUrlRef, liveUrls, audioSrc,
                   audioVolume, loads, resumePending, drops, microtask,
                   timers>>
    /\ AfterHandler

\* 'pause' (lines 507-510)
MediaPause ==
    /\ Ready
    /\ audioPaused' = TRUE
    /\ loads' = AbortLoads(loads)
    /\ resumePending' = FALSE
    /\ isPlaying' = FALSE
    /\ lastOp' = Op("mediaPause")
    /\ UNCHANGED <<lastCall, playlist, currentIndex, volume, errorMessage,
                   selectedIndices, currentObjectUrlRef, liveUrls, audioSrc,
                   audioVolume, drops, microtask, timers>>
    /\ AfterHandler

\* 'previoustrack' (lines 511-513)
MediaPrevious ==
    /\ Ready
    /\ currentIndex > 0
    /\ playTrack(currentIndex - 1, playlist, msVolume)
    /\ lastOp' = Op("mediaPrevious")
    /\ UNCHANGED <<playlist, isPlaying, volume, selectedIndices, audioSrc,
                   audioPaused, audioVolume, resumePending, drops, microtask>>
    /\ AfterHandler

\* 'nexttrack' (lines 514-516)
MediaNext ==
    /\ Ready
    /\ currentIndex < Len(playlist) - 1
    /\ playTrack(currentIndex + 1, playlist, msVolume)
    /\ lastOp' = Op("mediaNext")
    /\ UNCHANGED <<playlist, isPlaying, volume, selectedIndices, audioSrc,
                   audioPaused, audioVolume, resumePending, drops, microtask>>
    /\ AfterHandler

----------------------------------------------------------------------------
(* Volume (lines 38-40, 471-482, 645-648)                                  *)

\* AudioEngine.setVolume (lines 38-40)
EngineSetVolume(v) == audioVolume' = ClampVolume(v)

VolumeFrame ==
    UNCHANGED <<lastCall, playlist, currentIndex, isPlaying, errorMessage,
                selectedIndices, currentObjectUrlRef, liveUrls, audioSrc,
                audioPaused, loads, resumePending, drops, microtask, timers>>

\* ArrowUp (lines 471-476): Math.min(1, volume + 0.1)
ArrowUp ==
    /\ Ready
    /\ LET vUp == IF volume + 1 > FullVolume THEN FullVolume ELSE volume + 1
       IN  /\ volume' = vUp
           /\ EngineSetVolume(vUp)
    /\ lastOp' = Op("arrowUp")
    /\ VolumeFrame
    /\ AfterHandler

\* ArrowDown (lines 477-482): Math.max(0, volume - 0.1)
ArrowDown ==
    /\ Ready
    /\ LET vDown == IF volume - 1 < 0 THEN 0 ELSE volume - 1
       IN  /\ volume' = vDown
           /\ EngineSetVolume(vDown)
    /\ lastOp' = Op("arrowDown")
    /\ VolumeFrame
    /\ AfterHandler

\* the volume slider (lines 645-648); the range input yields 0 to 1
VolumeSlider(v) ==
    /\ Ready
    /\ volume' = v
    /\ EngineSetVolume(v)
    /\ lastOp' = Op("slider")
    /\ VolumeFrame
    /\ AfterHandler

----------------------------------------------------------------------------
(* Specifications                                                          *)

\* files are dropped and appended, and the first batch starts playing
Ingest ==
    \/ \E paths \in DropBatches : HandleDrop(paths)
    \/ \E k \in 1..Len(drops) : AppendTracks(k)
    \/ RunMicrotask

\* a track is chosen: by a plain click, by the buttons, or by the device
\* reaching the end of the current one
Navigate ==
    \/ \E index \in Indices(playlist) : handlePlaylistItemClick(index, FALSE)
    \/ PreviousTrack
    \/ NextTrack
    \/ Ended

\* play and pause, by the button, the space bar or the media keys
PlayPause ==
    \/ togglePlay
    \/ \E ok \in BOOLEAN : ResumeDone(ok)
    \/ \E ok \in BOOLEAN : MediaPlay(ok)
    \/ MediaPause
    \/ MediaPrevious
    \/ MediaNext

\* The transport machine: every load may fail at its read or at its play().
Init ==
    Initial([tracks |-> MaxTracks, loads |-> MaxLoads, drops |-> MaxDrops,
             urls |-> MaxLive, timers |-> MaxTimers])

Next ==
    \/ Ingest
    \/ Navigate
    \/ PlayPause
    \/ \E r \in 1..Len(loads), ok \in BOOLEAN : ReadDone(r, ok)
    \/ \E r \in 1..Len(loads), ok \in BOOLEAN : PlayDone(r, ok)
    \/ ErrorTimeout

Spec == Init /\ [][Next]_vars

\* The playlist-editing machine: tracks are dropped, chosen, selected and
\* deleted while they load and play; here the files are readable, play()
\* is granted and one load is under way at a time, so no load fails.
InitPlaylist ==
    Initial([tracks |-> MaxListed, loads |-> MaxListedLoads, drops |-> MaxDrops,
             urls |-> MaxLive, timers |-> MaxTimers])

NextPlaylist ==
    \/ Ingest
    \/ Navigate
    \/ \E index \in Indices(playlist) : handlePlaylistItemClick(index, TRUE)
    \/ SelectAll
    \/ deleteSelectedTracks
    \/ \E r \in 1..Len(loads) : ReadDone(r, TRUE)
    \/ \E r \in 1..Len(loads) : PlayDone(r, TRUE)

SpecPlaylist == InitPlaylist /\ [][NextPlaylist]_vars

\* a direct call of AudioEngine.setVolume (lines 38-40) with any number
AdapterSetVolume(v) ==
    /\ EngineSetVolume(v)
    /\ lastOp' = [Op("setVolume") EXCEPT !.cur = v]
    /\ UNCHANGED volume
    /\ VolumeFrame
    /\ AfterHandler

\* The volume controls alone.
NextVolume ==
    \/ ArrowUp
    \/ ArrowDown
    \/ \E v \in 0..FullVolume : VolumeSlider(v)
    \/ \E v \in (0 - VolumeOvershoot)..(FullVolume + VolumeOvershoot) :
           AdapterSetVolume(v)

SpecVolume == Init /\ [][NextVolume]_vars

\* the positions of the volume slider that are tried
SliderStops == {0, 5, FullVolume}

\* The volume machine among track changes: the slider moves while tracks
\* are dropped, chosen and loaded by every path that starts a load.
InitSticky ==
    Initial([tracks |-> MaxTracks, loads |-> MaxStickyLoads,
             drops |-> MaxDrops,
             urls |-> MaxLive, timers |-> MaxTimers])

NextSticky ==
    \/ Ingest
    \/ Navigate
    \/ MediaPrevious
    \/ MediaNext
    \/ \E v \in SliderStops : VolumeSlider(v)
    \/ \E r \in 1..Len(loads) : ReadDone(r, TRUE)
    \/ \E r \in 1..Len(loads) : PlayDone(r, TRUE)

SpecSticky == InitSticky /\ [][NextSticky]_vars

\* playTrack called directly (lines 198-240), with any index and with the
\* playlist or a list that holds a file of another type
DirectIndices == -1 .. MaxTracks

DirectLists == {playlist, <<Track(PathA), Track(PathC)>>}

CallPlayTrack(index, currentList) ==
    /\ Ready
    /\ playTrack(index, currentList, volume)
    /\ lastOp' = [op |-> "playTrack", cur |-> index, sel |-> {},
                  list |-> currentList, playing |-> isPlaying, from |-> -1]
    /\ UNCHANGED <<playlist, isPlaying, volume, selectedIndices, audioSrc,
                   audioPaused, audioVolume, resumePending, drops, microtask>>
    /\ AfterHandler

\* The contract of playTrack: direct calls among drops and loads that succeed.
InitDirect ==
    Initial([tracks |-> MaxTracks, loads |-> MaxStickyLoads,
             drops |-> MaxDrops, urls |-> MaxLive, timers |-> MaxTimers])

NextDirect ==
    \/ Ingest
    \/ \E index \in DirectIndices, currentList \in DirectLists :
           CallPlayTrack(index, currentList)
    \/ \E r \in 1..Len(loads) : ReadDone(r, TRUE)
    \/ \E r \in 1..Len(loads) : PlayDone(r, TRUE)
    \/ ErrorTimeout

SpecDirect == InitDirect /\ [][NextDirect]_vars

\* The error display: direct calls of playTrack and loads that may fail.
\* The timers of setTimeout fire and the microtask queue is drained, as the
\* event loop does.
NextDismiss ==
    \/ Ingest
    \/ \E index \in DirectIndices, currentList \in DirectLists :
           CallPlayTrack(index, currentList)
    \/ \E r \in 1..Len(loads), ok \in BOOLEAN : ReadDone(r, ok)
    \/ \E r \in 1..Len(loads), ok \in BOOLEAN : PlayDone(r, ok)
    \/ ErrorTimeout

SpecDismiss ==
    /\ InitDirect
    /\ [][NextDismiss]_vars
    /\ WF_vars(ErrorTimeout)
    /\ WF_vars(RunMicrotask)

----------------------------------------------------------------------------
(* Claims                                                                  *)

\* C1: a superseded load leaves no trace.  Once every invocation of
\* playTrack has run to its end and the one made last has succeeded,
\* CurrentIndex is its index, and the URL in the device and the URL held by
\* the ref are URLs of its track, in whatever order the reads and the play
\* requests of the earlier invocations completed.
C1_LastRequestWins ==
    (loads = <<>> /\ lastCall.pc = "done")
    => /\ currentIndex = lastCall.index
       /\ audioSrc.of = lastCall.path
       /\ currentObjectUrlRef.of = lastCall.path

\* C2: isPlaying = TRUE implies CurrentIndex # -1, in every reachable state.
C2_PlayingHasCurrent == isPlaying => currentIndex # -1

\* C3: in every reachable state CurrentIndex is -1 or an index of the
\* playlist.
C3_IndexInRange ==
    currentIndex = -1 \/ (0 <= currentIndex /\ currentIndex < Len(playlist))

\* C3 witness: a deletion has just moved the current index down, and it is
\* the last index of the shorter playlist.
C3_Witness ==
    /\ lastOp.op = "deleteSelected"
    /\ lastOp.cur > currentIndex
    /\ currentIndex >= 0
    /\ currentIndex = Len(playlist) - 1

\* C4: create before release.  A step that revokes an object URL has
\* created one: the replacement exists before the old handle goes.
C4_CreateBeforeRelease ==
    [][liveUrls \ liveUrls' # {} => liveUrls' \ liveUrls # {}]_vars

\* C5: at most one object URL is live (created and not revoked) in any
\* reachable state.
C5_AtMostOneLive == Cardinality(liveUrls) <= 1

\* the tracks of list whose index is not in S, in their order
RECURSIVE KeepFrom(_, _, _)
KeepFrom(list, S, i) ==
    IF i >= Len(list) THEN <<>>
    ELSE (IF i \in S THEN <<>> ELSE <<list[i + 1]>>) \o KeepFrom(list, S, i + 1)

\* C6: after deleteSelected with a non-empty selection S, from current index
\* c: CurrentIndex is -1 when c is in S; otherwise it is c minus the number
\* of selected indices below c, and it points to the track it pointed to.
C6_IndexRecomputed ==
    (lastOp.op = "deleteSelected" /\ lastOp.sel # {}) =>
        IF lastOp.cur \in lastOp.sel
        THEN currentIndex = -1
        ELSE /\ currentIndex =
                  lastOp.cur - Cardinality({d \in lastOp.sel : d < lastOp.cur})
             /\ lastOp.cur # -1 =>
                  playlist[currentIndex + 1] = lastOp.list[lastOp.cur + 1]

\* C6 witness: the current track survived a deletion that removed a track
\* before it and a track after it.
C6_Witness ==
    /\ lastOp.op = "deleteSelected"
    /\ lastOp.cur \notin lastOp.sel
    /\ \E d \in lastOp.sel : d < lastOp.cur
    /\ \E d \in lastOp.sel : d > lastOp.cur
    /\ currentIndex = lastOp.cur - 1

\* C7: when deleteSelected removes the track at CurrentIndex while isPlaying
\* is true, afterwards isPlaying is false and the device is paused.
C7_DeleteCurrentStops ==
    ( /\ lastOp.op = "deleteSelected"
      /\ lastOp.playing
      /\ lastOp.cur \in lastOp.sel )
    => (~isPlaying /\ audioPaused)

\* C8: deleteSelected with selection S on playlist P leaves exactly the
\* tracks of P whose index is not in S, in their order, Len(P) - |S| of them,
\* and an empty selection; with S empty, playlist and CurrentIndex stay.
C8_DeleteRemovesSelected ==
    lastOp.op = "deleteSelected" =>
        /\ playlist = KeepFrom(lastOp.list, lastOp.sel, 0)
        /\ Len(playlist) = Len(lastOp.list) - Cardinality(lastOp.sel)
        /\ selectedIndices = {}
        /\ lastOp.sel = {} =>
               (playlist = lastOp.list /\ currentIndex = lastOp.cur)

\* C8 witness: indices 0 and 2 of a three-track playlist were deleted.
C8_Witness ==
    /\ lastOp.op = "deleteSelected"
    /\ lastOp.sel = {0, 2}
    /\ Len(lastOp.list) = 3
    /\ lastOp.list[1] # lastOp.list[2]
    /\ playlist = <<lastOp.list[2]>>

\* C9: an ended notification that arrives with CurrentIndex = i starts
\* playTrack(i + 1) and makes CurrentIndex i + 1 when i + 1 is an index;
\* when i is the last index it sets isPlaying to false, leaves CurrentIndex
\* at i and starts no load.
C9_AutoAdvance ==
    [][lastOp'.op = "ended" =>
         /\ (currentIndex >= 0 /\ currentIndex + 1 < Len(playlist)) =>
                /\ currentIndex' = currentIndex + 1
                /\ Len(loads') = Len(loads) + 1
                /\ loads'[Len(loads')].index = currentIndex + 1
                /\ loads'[Len(loads')].path = playlist[currentIndex + 2].path
                /\ loads'[Len(loads')].pc = "read"
         /\ (currentIndex >= 0 /\ currentIndex + 1 = Len(playlist)) =>
                /\ ~isPlaying'
                /\ currentIndex' = currentIndex
                /\ loads' = loads
                /\ audioSrc' = audioSrc
                /\ currentObjectUrlRef' = currentObjectUrlRef
      ]_vars

\* C9 witness: the first of two tracks ended and the load of the second is
\* under way.
C9_Witness ==
    /\ lastOp.op = "ended"
    /\ lastOp.cur = 0
    /\ currentIndex = 1
    /\ Len(playlist) = 2
    /\ loads[Len(loads)].index = 1
    /\ loads[Len(loads)].pc = "read"

\* C10: after any sequence of volume operations the stored volume and the
\* device volume are in [0, 1]; setVolume(v) gives v clamped to [0, 1]; and
\* setVolume(v) applied again changes nothing.
C10_VolumeClamped ==
    /\ [](/\ volume \in 0..FullVolume
          /\ audioVolume \in 0..FullVolume
          /\ lastOp.op = "setVolume" =>
                audioVolume = IF lastOp.cur > FullVolume THEN FullVolume
                              ELSE IF lastOp.cur < 0 THEN 0
                              ELSE lastOp.cur)
    /\ [][(lastOp.op = "setVolume" /\ lastOp' = lastOp) =>
              UNCHANGED <<volume, audioVolume>>]_vars

\* C10 witness: setVolume was called with a value above 1 while the stored
\* volume was below 1.
C10_Witness ==
    /\ lastOp.op = "setVolume"
    /\ lastOp.cur > FullVolume
    /\ audioVolume = FullVolume
    /\ volume < FullVolume

\* C11: volume is sticky across tracks.  A step that hands a new source to
\* the device leaves the device volume equal to the stored volume, the one
\* the user set last, whichever handler started the load.
C11_VolumeSticky ==
    [][audioSrc' # audioSrc => audioVolume' = volume']_vars

\* the characters of path after its last dot; none when it has no dot
RECURSIVE Extension(_)
Extension(path) ==
    IF path = <<>> \/ path[Len(path)] = "." THEN <<>>
    ELSE Extension(SubSeq(path, 1, Len(path) - 1)) \o <<path[Len(path)]>>

SupportedExtensions ==
    { <<"m", "p", "3">>, <<"m", "4", "a">>, <<"f", "l", "a", "c">>,
      <<"w", "a", "v">>, <<"o", "g", "g">>, <<"o", "p", "u", "s">>,
      <<"a", "a", "c">>, <<"w", "m", "a">> }

Supported(path) ==
    /\ \E i \in 1..Len(path) : path[i] = "."
    /\ toLowerCase(Extension(path)) \in SupportedExtensions

\* the supported paths of a batch, in their order, as tracks
SupportedTracks(paths) ==
    LET kept == SelectSeq(paths, Supported)
    IN  [i \in 1..Len(kept) |-> [path |-> kept[i]]]

\* C12: ingestion.  A drop of a batch queues exactly its paths with a
\* supported extension (whatever the case), in their order, and queues
\* nothing when there is none; it leaves playlist, CurrentIndex and playback
\* alone.  A step that lengthens the playlist appends one queued batch,
\* whole, after the tracks that were there.
C12_Ingestion ==
    [][/\ \A paths \in DropBatches :
             HandleDrop(paths) =>
                 /\ drops' = IF SupportedTracks(paths) = <<>> THEN drops
                             ELSE Append(drops, SupportedTracks(paths))
                 /\ UNCHANGED <<playlist, currentIndex, isPlaying,
                                audioPaused, audioSrc, loads>>
       /\ Len(playlist') > Len(playlist) =>
             \E k \in 1..Len(drops) :
                 /\ playlist' = playlist \o drops[k]
                 /\ drops' = RemoveAt(drops, k)
      ]_vars

\* C12 witness: the batch [a.mp3, c.png, b.FLAC] gave two tracks, and the
\* batch [b.FLAC] was appended after them.
C12_Witness ==
    playlist = <<[path |-> PathA], [path |-> PathB], [path |-> PathB]>>

\* C13: the pointer moves at once.  The step in which a playTrack
\* invocation reaches its first await, its read not yet resolved, leaves
\* CurrentIndex at the index it was called with.
C13_IndexSetAtCall ==
    [][Len(loads') > Len(loads) =>
         /\ loads'[Len(loads')].pc = "read"
         /\ currentIndex' = loads'[Len(loads')].index
         /\ lastCall'.index = currentIndex'
      ]_vars

\* C13 witness: track 1 was asked for while track 0 is in the device; its
\* read is pending and CurrentIndex is 1 already.
C13_Witness ==
    /\ lastCall.pc = "read"
    /\ lastCall.index = 1
    /\ currentIndex = 1
    /\ audioSrc.of = PathA
    /\ Len(loads) = 1

\* C14: playTrack refuses what it cannot play.  Called with an index outside
\* the list, or with a track of an unsupported type, it shows "Invalid audio
\* file type" and leaves CurrentIndex, isPlaying, the active URL and the
\* device source alone.
C14_InvalidRefused ==
    [][( /\ lastOp'.op = "playTrack"
         /\ \/ lastOp'.cur \notin Indices(lastOp'.list)
            \/ ~Supported(lastOp'.list[lastOp'.cur + 1].path) )
       => /\ errorMessage' = "Invalid audio file type"
          /\ UNCHANGED <<currentIndex, isPlaying, currentObjectUrlRef,
                         audioSrc>>
      ]_vars

\* C15: a failed load ends in a safe idle condition.  A step in which the
\* catch block of playTrack runs shows "Failed to load audio file", leaves
\* isPlaying false and leaves the device paused, whatever it was playing.
C15_FailureIsIdle ==
    [][playTrackCatch =>
         /\ errorMessage' = "Failed to load audio file"
         /\ ~isPlaying'
         /\ audioPaused'
      ]_vars

\* C16: the outcome of a superseded load is discarded.  A step in which an
\* invocation of playTrack that is not the one made last passes its read or
\* its play(), with success or failure, leaves the error message, isPlaying
\* and the device source as they were.
C16_SupersededSilent ==
    [][\A r \in 1..Len(loads) :
         ( /\ ~IsLatest(r)
           /\ \E ok \in BOOLEAN : ReadDone(r, ok) \/ PlayDone(r, ok) )
         => UNCHANGED <<errorMessage, isPlaying, audioSrc>>
      ]_vars

\* C17: errors dismiss themselves.  Every error message on display has its
\* timer pending, and once the timers fire a state without message follows,
\* with no further action of the user.
C17_ErrorDismissed ==
    /\ [](errorMessage # NoError => timers > 0)
    /\ (errorMessage # NoError) ~> (errorMessage = NoError)

\* C17 witness: a load failed, nothing was played since, and the message
\* is gone while the timer of another error is still pending.
C17_Witness ==
    /\ loads = <<>>
    /\ lastCall.pc = "failed"
    /\ errorMessage = NoError
    /\ timers = 1

\* C18: the ended notification is evaluated against the playlist and
\* CurrentIndex of the moment it is delivered, whatever index playback was
\* started with: when CurrentIndex = i and i + 1 are indices of the playlist
\* it starts the load of the track now at i + 1; when CurrentIndex is -1 or
\* out of bounds it sets isPlaying to false, starts no load and leaves
\* CurrentIndex, the message and the source alone.
C18_EndedUsesCurrent ==
    [][lastOp'.op = "ended" =>
         /\ lastOp'.cur = currentIndex
         /\ playlist' = playlist
         /\ (currentIndex >= 0 /\ currentIndex + 1 < Len(playlist)) =>
                /\ currentIndex' = currentIndex + 1
                /\ lastCall' = [index |-> currentIndex + 1,
                                path |-> playlist[currentIndex + 2].path,
                                pc |-> "read"]
                /\ loads' # loads
         /\ (currentIndex < 0 \/ currentIndex >= Len(playlist)) =>
                /\ ~isPlaying'
                /\ UNCHANGED <<currentIndex, loads, lastCall, errorMessage,
                               audioSrc, currentObjectUrlRef, liveUrls,
                               timers>>
      ]_vars

\* C18 witness: the track started at index 1 was moved to index 0 by a
\* deletion while it played; its end started the load of the track that
\* is at index 1 now.
C18_Witness ==
    /\ lastOp.op = "ended"
    /\ lastOp.from = 1
    /\ lastOp.cur = 0
    /\ currentIndex = 1
    /\ Len(playlist) = 2
    /\ audioSrc.of = playlist[1].path
    /\ lastCall = [index |-> 1, path |-> playlist[2].path, pc |-> "read"]

\* The play button among the edits of the playlist: tracks are dropped,
\* clicked, deleted, and play() may be refused.
NextToggle ==
    \/ Ingest
    \/ \E index \in Indices(playlist) : handlePlaylistItemClick(index, FALSE)
    \/ SelectAll
    \/ deleteSelectedTracks
    \/ togglePlay
    \/ \E ok \in BOOLEAN : ResumeDone(ok)
    \/ \E r \in 1..Len(loads) : ReadDone(r, TRUE)
    \/ \E r \in 1..Len(loads), ok \in BOOLEAN : PlayDone(r, ok)
    \/ ErrorTimeout

SpecToggle == InitDirect /\ [][NextToggle]_vars

\* C19: togglePlay with isPlaying true pauses the device and sets
\* isPlaying false, CurrentIndex unchanged; with isPlaying false,
\* CurrentIndex = -1 and a non-empty playlist it starts playTrack(0); with
\* isPlaying false and CurrentIndex # -1 it asks the device to resume and
\* changes nothing else, and when that request settles isPlaying is true
\* exactly if it succeeded, CurrentIndex and the message staying as they
\* were.
C19_TogglePlay ==
    [][ /\ togglePlay =>
             /\ isPlaying =>
                    /\ audioPaused'
                    /\ ~isPlaying'
                    /\ currentIndex' = currentIndex
             /\ (~isPlaying /\ currentIndex = -1 /\ Len(playlist) > 0) =>
                    /\ currentIndex' = 0
                    /\ lastCall' = [index |-> 0, path |-> playlist[1].path,
                                    pc |-> "read"]
                    /\ Len(loads') = Len(loads) + 1
             /\ (~isPlaying /\ currentIndex # -1) =>
                    /\ resumePending'
                    /\ UNCHANGED <<isPlaying, currentIndex, errorMessage,
                                   timers, loads, lastCall>>
        /\ \A ok \in BOOLEAN : ResumeDone(ok) =>
             /\ isPlaying' = ok
             /\ ok => ~audioPaused'
             /\ UNCHANGED <<currentIndex, errorMessage, timers, loads>>
      ]_vars

\* C19 witness: a track was loaded and paused, and togglePlay has asked the
\* device to resume; the request has not settled and isPlaying is false.
C19_Witness ==
    /\ resumePending
    /\ ~isPlaying
    /\ currentIndex = 0
    /\ audioSrc # NoUrl
    /\ audioPaused
    /\ lastCall.pc = "done"

\* C20: isPlaying is never marked true optimistically: whenever a step
\* makes isPlaying true, the play() request of that path has succeeded and
\* the device is playing; a refused play() never leaves isPlaying true.
C20_NeverOptimistic ==
    [][(isPlaying' /\ ~isPlaying) => ~audioPaused']_vars

\* C21: append puts the new tracks at the end and keeps every existing
\* track at its index; the update itself starts no load and leaves
\* CurrentIndex, isPlaying, the selection and the source alone; when the
\* playlist was empty before, playTrack(0) on the updated list is queued
\* as a deferred step, which then starts that load; when it was not empty
\* nothing is queued.
C21_Append ==
    [][ /\ \A k \in 1..Len(drops) : AppendTracks(k) =>
             /\ drops[k] # <<>>
             /\ playlist' = playlist \o drops[k]
             /\ SubSeq(playlist', 1, Len(playlist)) = playlist
             /\ UNCHANGED <<currentIndex, isPlaying, selectedIndices,
                            audioSrc, audioPaused, currentObjectUrlRef,
                            loads, lastCall>>
             /\ microtask' = IF playlist = <<>> THEN <<playlist'>> ELSE <<>>
        /\ RunMicrotask =>
             /\ currentIndex' = 0
             /\ lastCall' = [index |-> 0, path |-> microtask[1][1].path,
                             pc |-> "read"]
             /\ Len(loads') = Len(loads) + 1
             /\ microtask' = <<>>
      ]_vars

\* C21 witness: two tracks were appended to the empty playlist; playback
\* of index 0 is queued and has not started.
C21_Witness ==
    /\ microtask = <<playlist>>
    /\ Len(playlist) = 2
    /\ currentIndex = -1
    /\ loads = <<>>
    /\ ~isPlaying

\* C22: an older error's timer never clears a newer error message.  All
\* timers run for the same 3000 ms, so they fire in the order they were
\* started, and a message on display is the one of the newest error: while
\* two or more timers are pending, the one that fires belongs to an older
\* error and must leave the message on display.
C22_TimerResets ==
    [][(timers >= 2 /\ timers' < timers /\ errorMessage # NoError) =>
           errorMessage' = errorMessage]_vars

\* C23: whenever no load is in flight or queued and CurrentIndex is not
\* -1, the source loaded in the device, if it has one, was made from the
\* file of the track at playlist[CurrentIndex], so that togglePlay resumes
\* the track shown as current.
C23_DeviceHoldsCurrent ==
    (loads = <<>> /\ microtask = <<>> /\ currentIndex # -1
                 /\ audioSrc # NoUrl) =>
        /\ currentIndex \in Indices(playlist)
        /\ audioSrc.of = playlist[currentIndex + 1].path

\* C24: in every reachable state the selection holds only indices of the
\* playlist, and toggling any index of the playlist twice gives the
\* selection back.
C24_SelectionValid ==
    /\ selectedIndices \subseteq Indices(playlist)
    /\ \A index \in Indices(playlist) :
           toggleSelection(toggleSelection(selectedIndices, index), index)
               = selectedIndices

\* C24 witness: after a deletion, with three tracks in the playlist, the
\* first and the last were selected one by one.
C24_Witness ==
    /\ Len(playlist) = 3
    /\ selectedIndices = {0, 2}
    /\ currentIndex = -1
    /\ audioSrc # NoUrl

============================================================================
